---------------------------- MODULE Spec2Model ----------------------------
(***************************************************************************)
(* OTA alert system: the severity rule engine (AlertAnalyzer.analyze_      *)
(* listing) and the alert ledger (AlertAnalyzer.save_alerts over           *)
(* DatabaseManager), modelled from src/src/analysis.py, src/src/database.py *)
(* and src/config.py.                                                       *)
(*                                                                         *)
(* Rates are Python floats in the source.  Every comparison the rule       *)
(* engine makes is between quotients of small non-negative integers and    *)
(* the constants 0.5, 0.01 and -30.0; for counts of this size IEEE double  *)
(* division and multiplication order such quotients exactly as the         *)
(* rationals do, so the comparisons are modelled by cross-multiplication   *)
(* over the integers.                                                      *)
(***************************************************************************)
EXTENDS Integers, Sequences, FiniteSets, TLC

VARIABLES
    rows,       \* raw_listing_performance rows of the analysed listing, oldest first
    cfg,        \* the process-wide Config, read once at start-up
    result,     \* what analyze_listing last returned for `rows`, or NotRun
    ledger,     \* the alerts table: number of rows per (id_listing, alert_date)
    uniqueKey,  \* whether the store's alerts table rejects a repeated (id_listing, alert_date)
    last,       \* the last save_alerts call: its batch and what became of it
    calls,      \* number of save_alerts calls made
    lookupFailed, \* whether some existing-alerts lookup has failed so far
    workers,    \* concurrent save_alerts executions: each one's position and locals
    store,      \* raw_listing_performance: the weekly rows of every listing
    run         \* the pipeline process of main.py: its position and locals

evalVars == <<rows, cfg, result>>
saveVars == <<ledger, uniqueKey, last, calls, lookupFailed>>
concVars == <<workers>>
mainVars == <<store, run>>
vars == <<rows, cfg, result, ledger, uniqueKey, last, calls, lookupFailed,
          workers, store, run>>

---------------------------------------------------------------------------
(* Bounds of the model *)

\* weekly rows loaded for the analysed listing
MaxWeeks == 3
\* listings that can appear in an alert batch
NumListings == 2
\* distinct alert dates (week starts) that can appear in an alert batch
MaxDate == 2
\* save_alerts calls in one behaviour
MaxCalls == 2

---------------------------------------------------------------------------
(* Config (src/config.py) *)

DEFAULT_CRITICAL_THRESHOLD == 100
DEFAULT_HIGH_THRESHOLD == 75
DEFAULT_MEDIUM_THRESHOLD == 50
DEFAULT_LOW_THRESHOLD == 25
DEFAULT_MIN_APPEARANCES_FOR_HIGH_ALERT == 50
\* 0.5, in hundredths
DEFAULT_VIEW_RATE_DROP_THRESHOLD == 50
\* 0.5, in hundredths
DEFAULT_CONVERSION_RATE_DROP_THRESHOLD == 50
\* -30.0 (percent)
DEFAULT_WOW_DECLINE_THRESHOLD == -30
\* the literal 0.01 of analyze_listing is 1 / RATE_FLOOR_DEN
RATE_FLOOR_DEN == 100
\* get_listing_history(id_listing, weeks=5)
HISTORY_WEEKS == 5

Config ==
    [ CRITICAL_THRESHOLD |-> DEFAULT_CRITICAL_THRESHOLD,
      HIGH_THRESHOLD |-> DEFAULT_HIGH_THRESHOLD,
      MEDIUM_THRESHOLD |-> DEFAULT_MEDIUM_THRESHOLD,
      LOW_THRESHOLD |-> DEFAULT_LOW_THRESHOLD,
      MIN_APPEARANCES_FOR_HIGH_ALERT |-> DEFAULT_MIN_APPEARANCES_FOR_HIGH_ALERT,
      VIEW_RATE_DROP_THRESHOLD |-> DEFAULT_VIEW_RATE_DROP_THRESHOLD,
      CONVERSION_RATE_DROP_THRESHOLD |-> DEFAULT_CONVERSION_RATE_DROP_THRESHOLD,
      WOW_DECLINE_THRESHOLD |-> DEFAULT_WOW_DECLINE_THRESHOLD ]

\* int(os.getenv(NAME, default)): the environment may override any threshold
\* with any integer.  The overrides explored: a zero weight, a negative
\* weight, a zero and a negative visibility floor.
EnvConfigs ==
    { Config,
      [Config EXCEPT !.LOW_THRESHOLD = 0],
      [Config EXCEPT !.CRITICAL_THRESHOLD = -25],
      [Config EXCEPT !.MIN_APPEARANCES_FOR_HIGH_ALERT = 0],
      [Config EXCEPT !.MIN_APPEARANCES_FOR_HIGH_ALERT = -1] }

---------------------------------------------------------------------------
(* Weekly records (raw_listing_performance) *)

Appearances == {0, 35, 50, 200}
Views == {0, 20, 40}
Bookings == {0, 2}

\* The counters one weekly row can carry: a grid around the rule thresholds,
\* and the rows of the worked examples.
WeekCounters ==
    { <<a, v, b>> : a \in Appearances, v \in Views, b \in Bookings }
      \cup { <<200, 40, 4>>, <<200, 38, 0>>, <<200, 2, 0>> }

Row(w, c) ==
    [ week_start |-> w,
      appearance_in_search |-> c[1],
      total_listing_views |-> c[2],
      bookings |-> c[3] ]

Max(a, b) == IF a >= b THEN a ELSE b

RECURSIVE Reverse(_)
Reverse(s) == IF s = <<>> THEN <<>> ELSE Append(Reverse(Tail(s)), Head(s))

RECURSIVE SumOf(_, _)
SumOf(s, f) == IF s = <<>> THEN 0 ELSE s[1][f] + SumOf(Tail(s), f)

\* history.sort_values('week_start'): ascending insertion sort
RECURSIVE InsertByWeek(_, _)
InsertByWeek(r, s) ==
    IF s = <<>> THEN <<r>>
    ELSE IF r.week_start < s[1].week_start THEN <<r>> \o s
    ELSE <<s[1]>> \o InsertByWeek(r, Tail(s))

RECURSIVE sort_values(_)
sort_values(s) ==
    IF s = <<>> THEN <<>> ELSE InsertByWeek(Head(s), sort_values(Tail(s)))

\* SELECT ... ORDER BY week_start DESC LIMIT :weeks  (table is oldest first)
get_listing_history(table, weeks) ==
    LET desc == Reverse(table)
    IN  SubSeq(desc, 1, IF Len(desc) < weeks THEN Len(desc) ELSE weeks)

---------------------------------------------------------------------------
(* AlertAnalyzer.analyze_listing *)

\* what analyze_listing returns when it returns no alert
None == [kind |-> "None"]
\* the listing has not been analysed since its rows last changed
NotRun == [kind |-> "NotRun"]

ISSUE_CRITICAL == "CRITICAL: Zero search appearances"
ISSUE_HIGH == "HIGH: No bookings despite search appearances"
ISSUE_VIEW == "MEDIUM: View rate dropped"
ISSUE_CONV == "MEDIUM: Conversion rate dropped"
ISSUE_WOW == "LOW: Search appearances down week-over-week"

\* score = 0; issues = []; severity_level = 'LOW'
InitScoring == [score |-> 0, issues |-> <<>>, severity_level |-> "LOW"]

\* mutant: the drop threshold is left out of the comparison
RateCollapsed_NoThreshold(ln, ld, an, ad, threshold) ==
    /\ ln * ad < an * ld
    /\ an * RATE_FLOOR_DEN > ad

\* latest_view_rate < avg_view_rate * threshold and avg_view_rate > 0.01,
\* rates given as numerator / denominator, threshold in hundredths
RateCollapsed(ln, ld, an, ad, threshold) ==
    /\ ln * ad * 100 < an * threshold * ld
    /\ an * RATE_FLOOR_DEN > ad

\* mutant: the difference is taken as previous - latest
WowDeclined_Reversed(latestApp, previousApp, threshold) ==
    (previousApp - latestApp) * 100 < threshold * Max(previousApp, 1)

\* wow_change < threshold, wow_change = (latest - previous) / max(previous, 1) * 100
WowDeclined(latestApp, previousApp, threshold) ==
    (latestApp - previousApp) * 100 < threshold * Max(previousApp, 1)

RuleCritical(s, c, latest) ==
    IF latest.appearance_in_search = 0
    THEN [ score |-> s.score + c.CRITICAL_THRESHOLD,
           issues |-> Append(s.issues, ISSUE_CRITICAL),
           severity_level |-> "CRITICAL" ]
    ELSE s

\* mutant: the visibility floor is compared with >=
RuleHigh_AtLeast(s, c, latest) ==
    IF /\ latest.appearance_in_search >= c.MIN_APPEARANCES_FOR_HIGH_ALERT
       /\ latest.bookings = 0
    THEN [ score |-> s.score + c.HIGH_THRESHOLD,
           issues |-> Append(s.issues, ISSUE_HIGH),
           severity_level |->
               IF s.severity_level \notin {"CRITICAL"} THEN "HIGH"
               ELSE s.severity_level ]
    ELSE s

\* mutant: the visibility floor is not compared at all
RuleHigh_NoFloor(s, c, latest) ==
    IF latest.bookings = 0
    THEN [ score |-> s.score + c.HIGH_THRESHOLD,
           issues |-> Append(s.issues, ISSUE_HIGH),
           severity_level |->
               IF s.severity_level \notin {"CRITICAL"} THEN "HIGH"
               ELSE s.severity_level ]
    ELSE s

RuleHigh(s, c, latest) ==
    IF /\ latest.appearance_in_search > c.MIN_APPEARANCES_FOR_HIGH_ALERT
       /\ latest.bookings = 0
    THEN [ score |-> s.score + c.HIGH_THRESHOLD,
           issues |-> Append(s.issues, ISSUE_HIGH),
           severity_level |->
               IF s.severity_level \notin {"CRITICAL"} THEN "HIGH"
               ELSE s.severity_level ]
    ELSE s

\* mutant: the level is set to MEDIUM whatever it was
RuleViewRate_Downgrade(s, c, latest, historical) ==
    IF RateCollapsed(latest.total_listing_views,
                     Max(latest.appearance_in_search, 1),
                     SumOf(historical, "total_listing_views"),
                     Max(SumOf(historical, "appearance_in_search"), 1),
                     c.VIEW_RATE_DROP_THRESHOLD)
    THEN [ score |-> s.score + c.MEDIUM_THRESHOLD,
           issues |-> Append(s.issues, ISSUE_VIEW),
           severity_level |-> "MEDIUM" ]
    ELSE s

RuleViewRate(s, c, latest, historical) ==
    IF RateCollapsed(latest.total_listing_views,
                     Max(latest.appearance_in_search, 1),
                     SumOf(historical, "total_listing_views"),
                     Max(SumOf(historical, "appearance_in_search"), 1),
                     c.VIEW_RATE_DROP_THRESHOLD)
    THEN [ score |-> s.score + c.MEDIUM_THRESHOLD,
           issues |-> Append(s.issues, ISSUE_VIEW),
           severity_level |->
               IF s.severity_level \notin {"CRITICAL", "HIGH"} THEN "MEDIUM"
               ELSE s.severity_level ]
    ELSE s

RuleConversion(s, c, latest, historical) ==
    IF RateCollapsed(latest.bookings,
                     Max(latest.total_listing_views, 1),
                     SumOf(historical, "bookings"),
                     Max(SumOf(historical, "total_listing_views"), 1),
                     c.CONVERSION_RATE_DROP_THRESHOLD)
    THEN [ score |-> s.score + c.MEDIUM_THRESHOLD,
           issues |-> Append(s.issues, ISSUE_CONV),
           severity_level |->
               IF s.severity_level \notin {"CRITICAL", "HIGH"} THEN "MEDIUM"
               ELSE s.severity_level ]
    ELSE s

\* mutant: the rule is an elif, skipped once another rule has fired
RuleWow_Elif(s, c, latest, previous) ==
    IF /\ s.issues = <<>>
       /\ WowDeclined(latest.appearance_in_search, previous.appearance_in_search,
                      c.WOW_DECLINE_THRESHOLD)
    THEN [ score |-> s.score + c.LOW_THRESHOLD,
           issues |-> Append(s.issues, ISSUE_WOW),
           severity_level |-> s.severity_level ]
    ELSE s

RuleWow(s, c, latest, previous) ==
    IF WowDeclined(latest.appearance_in_search, previous.appearance_in_search,
                   c.WOW_DECLINE_THRESHOLD)
    THEN [ score |-> s.score + c.LOW_THRESHOLD,
           issues |-> Append(s.issues, ISSUE_WOW),
           severity_level |-> s.severity_level ]
    ELSE s

\* the rules of analyze_listing, applied in source order to a sorted history
\* of at least two rows
Scoring(history, c) ==
    LET latest == history[Len(history)]
        previous == IF Len(history) >= 2 THEN history[Len(history) - 1] ELSE latest
        historical == SubSeq(history, 1, Len(history) - 1)
        s1 == RuleCritical(InitScoring, c, latest)
        s2 == RuleHigh(s1, c, latest)
        s3 == RuleViewRate(s2, c, latest, historical)
        s4 == RuleConversion(s3, c, latest, historical)
    IN  RuleWow(s4, c, latest, previous)

\* mutant: one row is taken as enough
EnoughData_One(fetched) == Len(fetched) >= 1

\* if len(history) < 2: return None
EnoughData(fetched) == Len(fetched) >= 2

\* if score == 0: return None, else the alert dict
MakeAlert(s, latest) ==
    IF s.score = 0 THEN None
    ELSE [ kind |-> "Alert",
           alert_date |-> latest.week_start,
           severity_score |-> s.score,
           severity_level |-> s.severity_level,
           issues |-> s.issues,
           latest_appearances |-> latest.appearance_in_search,
           latest_views |-> latest.total_listing_views,
           latest_bookings |-> latest.bookings ]

analyze_listing(table, c) ==
    LET fetched == get_listing_history(table, HISTORY_WEEKS)
    IN  IF ~EnoughData(fetched) THEN None
        ELSE LET history == sort_values(fetched)
             IN  MakeAlert(Scoring(history, c), history[Len(history)])

---------------------------------------------------------------------------
(* The alert ledger: AlertAnalyzer.save_alerts over DatabaseManager *)

Listings == 1..NumListings
Dates == 1..MaxDate

\* the columns of an alert that save_alerts and the alerts table key on
AlertRows == [id_listing : Listings, alert_date : Dates]

\* An alert batch as run_analysis returns it: at most one alert per listing
\* (get_all_listings groups by id_listing), each dated by that listing's own
\* latest week.
Batches ==
    { b \in SUBSET AlertRows :
        \A x \in b, y \in b : x.id_listing = y.id_listing => x = y }

EmptyLedger == [k \in AlertRows |-> 0]

\* alerts_df['alert_date'].max()
LatestWeek(batch) ==
    CHOOSE d \in {a.alert_date : a \in batch} :
        \A a \in batch : a.alert_date <= d

\* mutant: the batch is not narrowed to its latest week
LatestAlerts_All(batch) == batch

\* alerts_df[alerts_df['alert_date'] == latest_week]
LatestAlerts(batch) == {a \in batch : a.alert_date = LatestWeek(batch)}

\* SELECT id_listing, alert_date FROM alerts WHERE alert_date = :alert_date,
\* then set(existing_alerts['id_listing'].values)
ExistingListings(lg, week) ==
    {k.id_listing : k \in {x \in AlertRows : x.alert_date = week /\ lg[x] > 0}}

\* mutant: the existing listings are not filtered out
NewAlerts_Unfiltered(latest_alerts, existing_listings) == latest_alerts

\* latest_alerts[~latest_alerts['id_listing'].isin(existing_listings)]
NewAlerts(latest_alerts, existing_listings) ==
    {a \in latest_alerts : a.id_listing \notin existing_listings}

\* mutant: the result of the lookup is not looked at
RowsToInsert_NoCheck(lg, batch, lookup) == LatestAlerts(batch)

\* mutant: a failed lookup ends the save with nothing inserted
RowsToInsert_FailClosed(lg, batch, lookup) ==
    IF lookup = "ok"
    THEN LET existing_listings == ExistingListings(lg, LatestWeek(batch))
         IN  IF existing_listings # {}
             THEN NewAlerts(LatestAlerts(batch), existing_listings)
             ELSE LatestAlerts(batch)
    ELSE {}

\* The try block of save_alerts: the rows that go on to insert_dataframe.
\* lookup is what read_query did: "ok" or "failed" (it raised).  The empty
\* set stands for the early return when every alert already exists.
RowsToInsert(lg, batch, lookup) ==
    IF lookup = "ok"
    THEN LET existing_listings == ExistingListings(lg, LatestWeek(batch))
         IN  IF existing_listings # {}
             THEN NewAlerts(LatestAlerts(batch), existing_listings)
             ELSE LatestAlerts(batch)
    ELSE LatestAlerts(batch)

\* mutant: every error of the store is logged and swallowed
insert_dataframe_Swallow(lg, db_alerts, uk, storeError) ==
    IF storeError
    THEN [ledger |-> lg, insert |-> "error", raised |-> FALSE]
    ELSE IF uk /\ \E a \in db_alerts : lg[a] > 0
    THEN [ledger |-> lg, insert |-> "duplicate", raised |-> FALSE]
    ELSE [ ledger |-> [k \in AlertRows |-> IF k \in db_alerts THEN lg[k] + 1 ELSE lg[k]],
           insert |-> "ok", raised |-> FALSE ]

\* DatabaseManager.insert_dataframe on the alerts table: one multi-row
\* INSERT.  storeError: the store fails for a reason other than a duplicate
\* key.  With a unique key on (id_listing, alert_date) the store rejects the
\* whole statement when a row repeats a stored key ("Duplicate entry"); that
\* error is logged and swallowed, any other is re-raised.
insert_dataframe(lg, db_alerts, uk, storeError) ==
    IF storeError
    THEN [ledger |-> lg, insert |-> "error", raised |-> TRUE]
    ELSE IF uk /\ \E a \in db_alerts : lg[a] > 0
    THEN [ledger |-> lg, insert |-> "duplicate", raised |-> FALSE]
    ELSE [ ledger |-> [k \in AlertRows |-> IF k \in db_alerts THEN lg[k] + 1 ELSE lg[k]],
           insert |-> "ok", raised |-> FALSE ]

\* A record of one save_alerts call: the batch, what the lookup did
\* ("none": no lookup was made), the rows handed to insert_dataframe, what
\* the insert did ("none": no insert was made), the rows the store took,
\* and whether the call returned or raised.
CallRecord(batch, lookup, submitted, insert, inserted, outcome) ==
    [ kind |-> "Call", batch |-> batch, lookup |-> lookup,
      submitted |-> submitted, insert |-> insert, inserted |-> inserted,
      outcome |-> outcome ]

\* AlertAnalyzer.save_alerts: the ledger and the call record it leaves
save_alerts(lg, uk, batch, lookup, storeError) ==
    IF batch = {}
    THEN [ledger |-> lg, call |-> CallRecord(batch, "none", {}, "none", {}, "returned")]
    ELSE LET db_alerts == RowsToInsert(lg, batch, lookup)
         IN  IF db_alerts = {}
             THEN [ ledger |-> lg,
                    call |-> CallRecord(batch, lookup, {}, "none", {}, "returned") ]
             ELSE LET r == insert_dataframe(lg, db_alerts, uk, storeError)
                  IN  [ ledger |-> r.ledger,
                        call |-> CallRecord(batch, lookup, db_alerts, r.insert,
                                     IF r.insert = "ok" THEN db_alerts ELSE {},
                                     IF r.raised THEN "raised" ELSE "returned") ]

---------------------------------------------------------------------------
(* The rule engine as a state machine: the ETL loads one more week for the *)
(* listing, the analyzer evaluates the listing.                            *)

InitSave ==
    /\ ledger = EmptyLedger
    /\ uniqueKey = FALSE
    /\ last = None
    /\ calls = 0
    /\ lookupFailed = FALSE
    /\ workers = <<>>
    /\ store = <<>>
    /\ run = None

InitEval ==
    /\ rows = <<>>
    /\ cfg \in EnvConfigs
    /\ result = NotRun
    /\ InitSave

\* OTADataETL.load_to_database: one more weekly row of the listing
LoadWeek ==
    /\ Len(rows) < MaxWeeks
    /\ \E c \in WeekCounters : rows' = Append(rows, Row(Len(rows) + 1, c))
    /\ result' = NotRun
    /\ UNCHANGED <<cfg, saveVars, concVars, mainVars>>

Analyze ==
    /\ result = NotRun
    /\ result' = analyze_listing(rows, cfg)
    /\ UNCHANGED <<rows, cfg, saveVars, concVars, mainVars>>

NextEval == LoadWeek \/ Analyze

SpecEval == InitEval /\ [][NextEval]_vars

---------------------------------------------------------------------------
(* Properties of the rule engine, checked under SpecEval.  The rule table  *)
(* is restated here from the specification, with its own arithmetic, and   *)
(* compared with what analyze_listing returned.                            *)

\* the history the engine is given: the latest five rows, oldest first
GivenHistory ==
    IF Len(rows) <= 5 THEN rows ELSE SubSeq(rows, Len(rows) - 4, Len(rows))

Evaluated == result # NotRun /\ Len(GivenHistory) >= 2

LatestRow == GivenHistory[Len(GivenHistory)]
PreviousRow == GivenHistory[Len(GivenHistory) - 1]

RECURSIVE EarlierTotal(_, _)
EarlierTotal(field, n) ==
    IF n = 0 THEN 0 ELSE GivenHistory[n][field] + EarlierTotal(field, n - 1)

PooledAppearances == EarlierTotal("appearance_in_search", Len(GivenHistory) - 1)
PooledViews == EarlierTotal("total_listing_views", Len(GivenHistory) - 1)
PooledBookings == EarlierTotal("bookings", Len(GivenHistory) - 1)

AtLeastOne(n) == IF n < 1 THEN 1 ELSE n

\* the rows of the rule table whose trigger condition holds, the visibility
\* floor being minApp and the other thresholds at their defaults
TableFired(minApp) ==
    { r \in {ISSUE_CRITICAL, ISSUE_HIGH, ISSUE_VIEW, ISSUE_CONV, ISSUE_WOW} :
        \/ r = ISSUE_CRITICAL /\ LatestRow.appearance_in_search = 0
        \/ r = ISSUE_HIGH /\ LatestRow.appearance_in_search > minApp
                          /\ LatestRow.bookings = 0
        \/ r = ISSUE_VIEW
             /\ 2 * LatestRow.total_listing_views * AtLeastOne(PooledAppearances)
                  < PooledViews * AtLeastOne(LatestRow.appearance_in_search)
             /\ 100 * PooledViews > AtLeastOne(PooledAppearances)
        \/ r = ISSUE_CONV
             /\ 2 * LatestRow.bookings * AtLeastOne(PooledViews)
                  < PooledBookings * AtLeastOne(LatestRow.total_listing_views)
             /\ 100 * PooledBookings > AtLeastOne(PooledViews)
        \/ r = ISSUE_WOW
             /\ 100 * (LatestRow.appearance_in_search - PreviousRow.appearance_in_search)
                  < (0 - 30) * AtLeastOne(PreviousRow.appearance_in_search) }

DefaultWeight(r) ==
    CASE r = ISSUE_CRITICAL -> 100
      [] r = ISSUE_HIGH -> 75
      [] r = ISSUE_VIEW -> 50
      [] r = ISSUE_CONV -> 50
      [] r = ISSUE_WOW -> 25

RECURSIVE WeightSum(_)
WeightSum(S) ==
    IF S = {} THEN 0
    ELSE LET r == CHOOSE x \in S : TRUE IN DefaultWeight(r) + WeightSum(S \ {r})

\* the rules that fired, as analyze_listing reported them
FiredIssues ==
    IF result.kind = "Alert" THEN {result.issues[i] : i \in 1..Len(result.issues)}
    ELSE {}

TierRank(level) ==
    CASE level = "CRITICAL" -> 4
      [] level = "HIGH" -> 3
      [] level = "MEDIUM" -> 2
      [] level = "LOW" -> 1

IssueTier(r) ==
    CASE r = ISSUE_CRITICAL -> "CRITICAL"
      [] r = ISSUE_HIGH -> "HIGH"
      [] r = ISSUE_VIEW -> "MEDIUM"
      [] r = ISSUE_CONV -> "MEDIUM"
      [] r = ISSUE_WOW -> "LOW"

\* C3: at default thresholds, for a history of at least 2 rows, the rules
\* that fire are exactly the rows of the rule table whose (strict) condition
\* holds, each once, none suppressing another, and severity_score is the sum
\* of their weights 100, 75, 50, 50, 25.
C3_RuleTable ==
    (Evaluated /\ cfg = Config) =>
        /\ FiredIssues = TableFired(50)
        /\ result.kind = "Alert" =>
             /\ Len(result.issues) = Cardinality(FiredIssues)
             /\ result.severity_score = WeightSum(TableFired(50))

\* C3 witness: four rules fired together (zero appearances, both rate
\* collapses, week-over-week decline), score 225
C3_Witness ==
    /\ Evaluated /\ cfg = Config
    /\ result.kind = "Alert"
    /\ result.severity_score = 225
    /\ Len(result.issues) = 4

\* C4: every returned alert carries the highest tier among the rules that
\* fired; with a HIGH and both MEDIUM rules fired and no CRITICAL, the score
\* is 175 at default weights and the level HIGH; with only the week-over-week
\* rule fired the level is LOW.
C4_LevelIsHighestTier ==
    (Evaluated /\ result.kind = "Alert") =>
        /\ \E r \in FiredIssues : IssueTier(r) = result.severity_level
        /\ \A r \in FiredIssues :
             TierRank(IssueTier(r)) <= TierRank(result.severity_level)
        /\ (cfg = Config /\ FiredIssues = {ISSUE_HIGH, ISSUE_VIEW, ISSUE_CONV}) =>
             (result.severity_score = 175 /\ result.severity_level = "HIGH")
        /\ FiredIssues = {ISSUE_WOW} => result.severity_level = "LOW"

\* C4 witness: HIGH and both MEDIUM rules fired without CRITICAL
C4_Witness ==
    /\ Evaluated /\ cfg = Config
    /\ result.kind = "Alert"
    /\ FiredIssues = {ISSUE_HIGH, ISSUE_VIEW, ISSUE_CONV}
    /\ result.severity_score = 175
    /\ result.severity_level = "HIGH"

ExampleHistory ==
    << [week_start |-> 1, appearance_in_search |-> 200,
        total_listing_views |-> 40, bookings |-> 4],
       [week_start |-> 2, appearance_in_search |-> 200,
        total_listing_views |-> 38, bookings |-> 0] >>

\* C5 as stated: at default thresholds the history (200, 40, 4),
\* (200, 38, 0) yields an alert of score 75, level HIGH, with exactly one
\* issue, the no-bookings rule firing alone.
C5_WorkedExample ==
    (rows = ExampleHistory /\ cfg = Config /\ result # NotRun) =>
        /\ result.kind = "Alert"
        /\ result.severity_score = 75
        /\ result.severity_level = "HIGH"
        /\ result.issues = <<ISSUE_HIGH>>

\* C5 amended: on that history the no-bookings rule and the conversion-rate
\* rule both fire (latest conversion 0 < 0.5 x 0.1): score 125, level HIGH,
\* exactly two issues.
C5_WorkedExampleTwoIssues ==
    (rows = ExampleHistory /\ cfg = Config /\ result # NotRun) =>
        /\ result.kind = "Alert"
        /\ result.severity_score = 125
        /\ result.severity_level = "HIGH"
        /\ result.issues = <<ISSUE_HIGH, ISSUE_CONV>>

\* C5 witness: the example history has been evaluated
C5_Witness ==
    /\ rows = ExampleHistory /\ cfg = Config
    /\ result.kind = "Alert"

\* the latest row has zero appearances and every earlier row has some
ZeroAfterNonzero ==
    /\ Evaluated /\ cfg = Config
    /\ LatestRow.appearance_in_search = 0
    /\ \A i \in 1..(Len(GivenHistory) - 1) : GivenHistory[i].appearance_in_search > 0

\* C6 as stated: zero appearances after a nonzero history fires the CRITICAL
\* rule alone, score 100, level CRITICAL.
C6_ZeroAppearancesAlone ==
    ZeroAfterNonzero =>
        /\ result.kind = "Alert"
        /\ result.severity_score = 100
        /\ result.severity_level = "CRITICAL"
        /\ result.issues = <<ISSUE_CRITICAL>>

\* C6 amended: zero appearances after a nonzero history fires the CRITICAL
\* rule and, the change being -100%, the week-over-week rule with it, never
\* the HIGH rule; the score is 125 plus 50 for each MEDIUM rule that fired,
\* and the level is CRITICAL.
C6_ZeroAppearancesWithDecline ==
    ZeroAfterNonzero =>
        /\ result.kind = "Alert"
        /\ result.severity_level = "CRITICAL"
        /\ {ISSUE_CRITICAL, ISSUE_WOW} \subseteq FiredIssues
        /\ ISSUE_HIGH \notin FiredIssues
        /\ result.severity_score
             = 125 + 50 * Cardinality(FiredIssues \cap {ISSUE_VIEW, ISSUE_CONV})

\* C6 witness: zero appearances after a nonzero history, no MEDIUM rule fired
C6_Witness ==
    /\ ZeroAfterNonzero
    /\ result.kind = "Alert"
    /\ result.severity_score = 125
    /\ result.issues = <<ISSUE_CRITICAL, ISSUE_WOW>>

\* C7 as stated: under every threshold configuration an alert is returned
\* exactly when at least one rule fired, and a returned alert has a positive
\* score and at least one issue.
C7_AlertIffRuleFired ==
    Evaluated =>
        /\ result.kind = "Alert" <=> TableFired(cfg.MIN_APPEARANCES_FOR_HIGH_ALERT) # {}
        /\ result.kind = "Alert" =>
             (result.severity_score > 0 /\ Len(result.issues) >= 1)

\* C8: a history of fewer than 2 rows evaluates to None.
C8_ShortHistoryIsNone ==
    (result # NotRun /\ Len(rows) < 2) => result = None

\* C8 witness: a one-row history whose row has zero appearances was evaluated
C8_Witness ==
    /\ Len(rows) = 1
    /\ rows[1].appearance_in_search = 0
    /\ result = None

\* C19: at default thresholds, when the latest week has zero appearances
\* and the week before it had at least one, the week-over-week rule fires
\* with the zero-appearances rule: at least two issues, score >= 125, level
\* CRITICAL.
C19_ZeroImpliesDecline ==
    ( /\ Evaluated /\ cfg = Config
      /\ LatestRow.appearance_in_search = 0
      /\ PreviousRow.appearance_in_search >= 1 ) =>
        /\ result.kind = "Alert"
        /\ ISSUE_CRITICAL \in FiredIssues
        /\ ISSUE_WOW \in FiredIssues
        /\ Len(result.issues) >= 2
        /\ result.severity_score >= 125
        /\ result.severity_level = "CRITICAL"

\* C19 witness: a three-week history that started at zero appearances, rose
\* and fell back to zero was evaluated
C19_Witness ==
    /\ Evaluated /\ cfg = Config
    /\ Len(rows) = 3
    /\ rows[1].appearance_in_search = 0
    /\ rows[2].appearance_in_search >= 1
    /\ rows[3].appearance_in_search = 0
    /\ result.kind = "Alert"
    /\ ISSUE_WOW \in FiredIssues

\* C20: with a visibility floor >= 0 the zero-appearances rule and the
\* no-bookings rule never fire for the same listing; at default thresholds
\* every returned score is a multiple of 25 from 25 to 225 and at most four
\* rules fire together.
C20_CriticalExcludesHigh ==
    Evaluated =>
        /\ cfg.MIN_APPEARANCES_FOR_HIGH_ALERT >= 0 =>
             ~({ISSUE_CRITICAL, ISSUE_HIGH} \subseteq FiredIssues)
        /\ (cfg = Config /\ result.kind = "Alert") =>
             /\ result.severity_score \in {25 * n : n \in 1..9}
             /\ Len(result.issues) <= 4

\* C20 witness: with the floor at 0, a latest week of zero appearances and
\* zero bookings fired the zero-appearances rule and not the no-bookings rule
C20_Witness ==
    /\ Evaluated
    /\ cfg.MIN_APPEARANCES_FOR_HIGH_ALERT = 0
    /\ LatestRow.appearance_in_search = 0
    /\ LatestRow.bookings = 0
    /\ result.kind = "Alert"
    /\ ISSUE_CRITICAL \in FiredIssues
    /\ ISSUE_HIGH \notin FiredIssues

---------------------------------------------------------------------------
(* The ledger as a state machine: save_alerts is called with some batch,   *)
(* the store answering the lookup or failing it, taking the insert or      *)
(* failing it.                                                             *)

Init ==
    /\ rows = <<>>
    /\ cfg = Config
    /\ result = NotRun
    /\ ledger = EmptyLedger
    /\ uniqueKey \in BOOLEAN
    /\ last = None
    /\ calls = 0
    /\ lookupFailed = FALSE
    /\ workers = <<>>
    /\ store = <<>>
    /\ run = None

SaveAlerts ==
    /\ calls < MaxCalls
    /\ \E batch \in Batches, lookup \in {"ok", "failed"}, storeError \in BOOLEAN :
         LET r == save_alerts(ledger, uniqueKey, batch, lookup, storeError)
         IN  /\ ledger' = r.ledger
             /\ last' = r.call
             /\ lookupFailed' = (lookupFailed \/ r.call.lookup = "failed")
    /\ calls' = calls + 1
    /\ UNCHANGED <<uniqueKey, evalVars, concVars, mainVars>>

Next == SaveAlerts

Spec == Init /\ [][Next]_vars

---------------------------------------------------------------------------
(* Properties of save_alerts, checked under Spec *)

\* the alerts of a batch that carry its greatest alert_date
OfLatestDate(batch) ==
    {a \in batch : \A b \in batch : b.alert_date <= a.alert_date}

\* C1 as stated: whatever the calls, and whether their lookups succeeded or
\* failed, the ledger holds at most one row per (id_listing, alert_date).
C1_LedgerUnique == \A k \in AlertRows : ledger[k] <= 1

\* C1 amended: as long as every existing-alerts lookup made so far has
\* succeeded, the ledger holds at most one row per (id_listing, alert_date).
C1_LedgerUniqueWhileLookupsSucceed ==
    ~lookupFailed => \A k \in AlertRows : ledger[k] <= 1

\* C1 witness: without a store constraint, a call whose lookup succeeded
\* skipped an alert already in the ledger and inserted a novel one
C1_Witness ==
    /\ ~uniqueKey /\ ~lookupFailed
    /\ last.kind = "Call" /\ last.lookup = "ok"
    /\ last.inserted # {}
    /\ OfLatestDate(last.batch) \ last.inserted # {}

\* a save_alerts step that follows a call given the identical, non-empty batch
TwiceIdentical ==
    /\ last.kind = "Call" /\ last'.kind = "Call"
    /\ calls' = calls + 1
    /\ last'.batch = last.batch
    /\ last.batch # {}

\* C2 as stated: of two successive calls with an identical batch the second
\* inserts nothing, and each row of the latest alert_date is in the ledger
\* exactly once.
C2_SecondCallInsertsNothing ==
    [][ TwiceIdentical =>
          /\ last'.inserted = {}
          /\ \A a \in OfLatestDate(last.batch) : ledger'[a] = 1 ]_vars

\* C2 amended: of two successive calls with an identical batch, the first
\* having returned with its insert taken by the store and the second's
\* lookup having succeeded, the second submits and inserts nothing, the
\* ledger stays as the first left it, and each row of the latest alert_date
\* is in it (exactly once if no lookup ever failed); and whatever the
\* batches, a call whose lookup succeeded inserts no row that the ledger
\* already held.
C2_SecondCallInsertsNothingAfterLookup ==
    [][ /\ ( /\ TwiceIdentical
             /\ last.outcome = "returned" /\ last.insert # "duplicate"
             /\ last'.lookup = "ok" ) =>
               /\ last'.submitted = {} /\ last'.inserted = {}
               /\ ledger' = ledger
               /\ \A a \in OfLatestDate(last.batch) :
                    /\ ledger'[a] >= 1
                    /\ ~lookupFailed' => ledger'[a] = 1
        /\ (calls' = calls + 1 /\ last'.lookup = "ok") =>
               \A a \in last'.inserted : ledger[a] = 0 /\ ledger'[a] = 1 ]_vars

\* C2 witness: without a store constraint, two calls have been made; the
\* second, given a batch of the earliest date, found every row of it stored
\* once and inserted nothing, and the ledger holds nothing else: the first
\* call was given the same batch and inserted it
C2_Witness ==
    /\ ~uniqueKey
    /\ calls = 2
    /\ last.kind = "Call" /\ last.lookup = "ok"
    /\ Cardinality(last.batch) = 2
    /\ \A a \in last.batch : a.alert_date = 1
    /\ last.submitted = {}
    /\ \A k \in AlertRows : ledger[k] = (IF k \in last.batch THEN 1 ELSE 0)

\* C9: a save_alerts call changes the ledger only at alerts of its batch
\* whose alert_date is the greatest alert_date of the batch.
C9_OnlyLatestDateInserted ==
    [][ \A k \in AlertRows :
          ledger'[k] # ledger[k] => k \in OfLatestDate(last'.batch) ]_vars

\* C9 witness: a batch of two dates was saved, its later alert inserted and
\* its earlier alert absent from the ledger
C9_Witness ==
    /\ last.kind = "Call"
    /\ last.inserted # {}
    /\ \E a \in last.batch :
         /\ a \notin OfLatestDate(last.batch)
         /\ ledger[a] = 0

\* C10: when the existing-alerts lookup fails the call does not end there:
\* every alert of the batch's latest alert_date is handed to the insert, the
\* call raises only if that insert fails, and an insert the store takes adds
\* every one of them, already present or not.
C10_LookupFailureInsertsAll ==
    (last.kind = "Call" /\ last.lookup = "failed") =>
        /\ last.submitted = OfLatestDate(last.batch)
        /\ last.insert # "none"
        /\ last.outcome = "raised" => last.insert = "error"
        /\ last.insert = "ok" => last.inserted = OfLatestDate(last.batch)

\* C10 witness: the lookup failed and the insert added a row the ledger
\* already held
C10_Witness ==
    /\ last.kind = "Call" /\ last.lookup = "failed"
    /\ last.insert = "ok"
    /\ \E a \in last.inserted : ledger[a] = 2

\* C11 as stated: whenever the insert fails, after a lookup that succeeded
\* or one that fell back, save_alerts raises.
C11_InsertFailurePropagates ==
    (last.kind = "Call" /\ last.insert \in {"error", "duplicate"}) =>
        last.outcome = "raised"

\* C11 amended: whenever the insert fails for a reason other than a
\* duplicate key, after either kind of lookup, save_alerts raises and has
\* inserted nothing; a duplicate-key rejection is swallowed by
\* insert_dataframe and save_alerts returns, having inserted nothing.
C11_StoreErrorPropagates ==
    last.kind = "Call" =>
        /\ last.insert = "error" =>
             (last.outcome = "raised" /\ last.inserted = {})
        /\ last.insert = "duplicate" =>
             (last.outcome = "returned" /\ last.inserted = {})
        /\ last.outcome = "raised" => last.insert = "error"

\* C11 witness: the lookup fell back and the insert then failed
C11_Witness ==
    /\ last.kind = "Call" /\ last.lookup = "failed"
    /\ last.insert = "error"
    /\ last.outcome = "raised"

\* C18 as stated: when save_alerts returns on a non-empty batch, every alert
\* of the batch's latest alert_date is in the ledger.
C18_ReturnedMeansPersisted ==
    (last.kind = "Call" /\ last.batch # {} /\ last.outcome = "returned") =>
        \A a \in OfLatestDate(last.batch) : ledger[a] >= 1

---------------------------------------------------------------------------
(* AlertAnalyzer.run_analysis over the store, and the pipeline of main.py  *)

\* the counters of the sheets loaded: a healthy week and a week of nothing
SheetCounters == { <<200, 40, 4>>, <<0, 0, 0>> }

\* the weekly rows one listing can have: at most one per week, oldest first
RECURSIVE HistoriesUpTo(_)
HistoriesUpTo(w) ==
    IF w = 0 THEN {<<>>}
    ELSE LET earlier == HistoriesUpTo(w - 1)
         IN  earlier \cup { Append(h, Row(w, c)) : h \in earlier, c \in SheetCounters }

\* a listing loaded in the week before week 1 and last seen, with nothing,
\* in week 1: its alert carries an alert_date older than the others'
DelistedHistory == << Row(0, <<200, 40, 4>>), Row(1, <<0, 0, 0>>) >>

Stores == [Listings -> HistoriesUpTo(MaxDate) \cup {DelistedHistory}]

EmptyStore == [l \in Listings |-> <<>>]

\* the listings the store knows, and MAX(week_start) of each
KnownListings(st) == {l \in Listings : st[l] # <<>>}

last_updated(st, l) == st[l][Len(st[l])].week_start

\* every arrangement of a finite set as a sequence
Arrangements(S) ==
    {f \in [1..Cardinality(S) -> S] : \A i, j \in DOMAIN f : f[i] = f[j] => i = j}

\* get_all_listings: GROUP BY id_listing ORDER BY last_updated DESC; the
\* store returns listings of equal last_updated in an order of its choosing
get_all_listings(st) ==
    {order \in Arrangements(KnownListings(st)) :
        \A i, j \in DOMAIN order :
            i < j => last_updated(st, order[i]) >= last_updated(st, order[j])}

\* the dict analyze_listing returns, as a row of the alerts frame
AlertOf(l, a) ==
    [ id_listing |-> l,
      alert_date |-> a.alert_date,
      severity_score |-> a.severity_score,
      severity_level |-> a.severity_level ]

\* the loop of run_analysis: alerts.append(alert) for every listing whose
\* analysis returned a dict
RECURSIVE Collect(_, _, _)
Collect(st, order, c) ==
    IF order = <<>> THEN <<>>
    ELSE LET alert == analyze_listing(st[Head(order)], c)
             rest == Collect(st, Tail(order), c)
         IN  IF alert = None THEN rest
             ELSE <<AlertOf(Head(order), alert)>> \o rest

NonIncreasing(alerts) ==
    \A i, j \in DOMAIN alerts :
        i < j => alerts[i].severity_score >= alerts[j].severity_score

\* mutant: ascending order
sort_by_score_Ascending(alerts) ==
    { [i \in DOMAIN alerts |-> alerts[p[i]]] : p \in
        {q \in Arrangements(DOMAIN alerts) :
            \A i, j \in DOMAIN alerts :
                i < j => alerts[q[i]].severity_score <= alerts[q[j]].severity_score} }

\* alerts_df.sort_values('severity_score', ascending=False): the default
\* kind is quicksort, which is not a stable sort, so rows of equal score
\* come out in an order the sort chooses
sort_by_score(alerts) ==
    { [i \in DOMAIN alerts |-> alerts[p[i]]] : p \in
        {q \in Arrangements(DOMAIN alerts) :
            NonIncreasing([i \in DOMAIN alerts |-> alerts[q[i]]])} }

\* mutant: a failed read is logged and the listings read so far are returned
run_analysis_Partial(st, order, failAt, c) ==
    IF failAt = 1 THEN { [raised |-> FALSE, order |-> <<>>, alerts |-> <<>>] }
    ELSE LET seen == IF failAt = 0 THEN order ELSE SubSeq(order, 1, failAt - 2)
         IN  { [raised |-> FALSE, order |-> order, alerts |-> sorted] :
                   sorted \in sort_by_score(Collect(st, seen, c)) }

\* mutant: no early return for an empty list; sorting the empty frame by a
\* column it does not have raises
run_analysis_NoEarlyReturn(st, order, failAt, c) ==
    IF failAt > 0 \/ Collect(st, order, c) = <<>>
    THEN { [raised |-> TRUE, order |-> <<>>, alerts |-> <<>>] }
    ELSE { [raised |-> FALSE, order |-> order, alerts |-> sorted] :
               sorted \in sort_by_score(Collect(st, order, c)) }

\* run_analysis with the listings in `order`; failAt names the read that
\* fails: 0 none, 1 get_all_listings, k + 1 the history of the k-th listing.
\* read_query re-raises and run_analysis catches nothing.
run_analysis(st, order, failAt, c) ==
    IF failAt > 0 THEN { [raised |-> TRUE, order |-> <<>>, alerts |-> <<>>] }
    ELSE { [raised |-> FALSE, order |-> order, alerts |-> sorted] :
               sorted \in sort_by_score(Collect(st, order, c)) }

\* the (id_listing, alert_date) pairs of the frame handed to save_alerts
BatchOf(alerts) ==
    { [id_listing |-> alerts[i].id_listing, alert_date |-> alerts[i].alert_date] :
        i \in DOMAIN alerts }

\* mutant: the filter is applied to the caller's frame, without .copy()
alerts_df_after_save_InPlace(alerts, call) ==
    SelectSeq(alerts,
              LAMBDA a : [id_listing |-> a.id_listing, alert_date |-> a.alert_date]
                             \in call.submitted)

\* the caller's frame once save_alerts is over: latest_alerts, new_alerts
\* and db_alerts are each a .copy(), so the filtering and the two added
\* columns never reach alerts_df
alerts_df_after_save(alerts, call) == alerts

\* mutant: the API call is not wrapped in try/except
generate_summary_Raises(alerts, apiError) ==
    IF Len(alerts) = 0 THEN [raised |-> FALSE, summary |-> "no issues"]
    ELSE IF apiError THEN [raised |-> TRUE, summary |-> "none"]
    ELSE [raised |-> FALSE, summary |-> "text"]

\* AIInsightGenerator.generate_summary: the model's text, or the placeholder
\* "AI analysis temporarily unavailable..." when the API call raises
generate_summary(alerts, apiError) ==
    IF Len(alerts) = 0 THEN [raised |-> FALSE, summary |-> "no issues"]
    ELSE IF apiError THEN [raised |-> FALSE, summary |-> "placeholder"]
    ELSE [raised |-> FALSE, summary |-> "text"]

\* SlackNotifier.send_alerts over send_message: the all-clear or the alert
\* message is posted; True when the webhook answered 200, False on any other
\* answer or on an exception
send_alerts(alerts, postError) ==
    [ raised |-> FALSE,
      message |-> IF Len(alerts) = 0 THEN "all clear" ELSE "alerts",
      sent |-> IF postError THEN "False" ELSE "True" ]

\* main(): position and locals of the pipeline process (analysed: `alerts`
\* has been assigned; use_ai, send_slack: the command-line switch as read
\* where main tests it, "unread" before; summarised, delivered: the frame
\* generate_summary and send_alerts were called with), and what befell it: the step an
\* exception came out of, and which of the store read, the API call and the
\* webhook post failed
Pipeline(pc) ==
    [ pc |-> pc, use_ai |-> "unread", send_slack |-> "unread",
      analysed |-> FALSE, order |-> <<>>, alerts |-> <<>>,
      ai_summary |-> "none", summarised |-> <<>>,
      sent |-> "none", delivered |-> <<>>,
      error |-> "none",
      read_failed |-> FALSE, api_failed |-> FALSE, post_failed |-> FALSE ]

\* the alerts table is empty before the run, so a unique key has nothing
\* to reject during it
InitMain ==
    /\ rows = <<>>
    /\ cfg = Config
    /\ result = NotRun
    /\ ledger = EmptyLedger
    /\ uniqueKey = FALSE
    /\ last = None
    /\ calls = 0
    /\ lookupFailed = FALSE
    /\ workers = <<>>
    /\ store = EmptyStore
    /\ run = Pipeline("etl")

\* an exception out of `step` reached main's except clause: sys.exit(1)
Exit1(step) == [run EXCEPT !.pc = "exit1", !.error = step]

\* Step 1, etl.run_pipeline: reading the workbook may raise; the load of
\* its sheets either arrives in the store or is rejected by it, which
\* load_to_database logs and swallows
Etl ==
    /\ run.pc = "etl"
    /\ \/ /\ run' = Exit1("run_pipeline")
          /\ UNCHANGED store
       \/ /\ run' = [run EXCEPT !.pc = "analysis"]
          /\ \E st \in Stores : store' = st
    /\ UNCHANGED <<evalVars, saveVars, concVars>>

\* Step 2, alerts = analyzer.run_analysis(), and the branch on len(alerts)
RunAnalysis ==
    /\ run.pc = "analysis"
    /\ \E order \in get_all_listings(store) :
       \E failAt \in 0..(Len(order) + 1) :
       \E r \in run_analysis(store, order, failAt, cfg) :
         run' = IF r.raised
                THEN [Exit1("run_analysis") EXCEPT !.read_failed = (failAt > 0)]
                ELSE [run EXCEPT !.pc = IF Len(r.alerts) > 0 THEN "save" ELSE "slack",
                                 !.analysed = TRUE,
                                 !.order = r.order,
                                 !.alerts = r.alerts,
                                 !.read_failed = (failAt > 0)]
    /\ UNCHANGED <<evalVars, saveVars, concVars, store>>

\* Step 3, analyzer.save_alerts(alerts)
Save ==
    /\ run.pc = "save"
    /\ \E lookup \in {"ok", "failed"}, storeError \in BOOLEAN :
         LET r == save_alerts(ledger, uniqueKey, BatchOf(run.alerts), lookup, storeError)
         IN  /\ ledger' = r.ledger
             /\ last' = r.call
             /\ lookupFailed' = (lookupFailed \/ r.call.lookup = "failed")
             /\ run' = [ (IF r.call.outcome = "raised" THEN Exit1("save_alerts")
                          ELSE [run EXCEPT !.pc = "ai"])
                            EXCEPT !.alerts = alerts_df_after_save(run.alerts, r.call) ]
    /\ calls' = calls + 1
    /\ UNCHANGED <<evalVars, uniqueKey, concVars, store>>

\* Step 4, ai_generator.generate_summary(alerts) when --use-ai
Ai ==
    /\ run.pc = "ai"
    /\ \/ run' = [run EXCEPT !.pc = "slack", !.use_ai = "no"]
       \/ \E apiError \in BOOLEAN :
              LET r == generate_summary(run.alerts, apiError)
              IN  run' = IF r.raised
                         THEN [Exit1("generate_summary") EXCEPT !.use_ai = "yes",
                                                                !.api_failed = apiError]
                         ELSE [run EXCEPT !.pc = "slack",
                                          !.use_ai = "yes",
                                          !.summarised = run.alerts,
                                          !.ai_summary = r.summary,
                                          !.api_failed = apiError]
    /\ UNCHANGED <<evalVars, saveVars, concVars, store>>

\* Step 5, notifier.send_alerts(alerts, ai_summary) when --send-slack, in
\* either branch of `if len(alerts) > 0`; then "PIPELINE COMPLETE"
Slack ==
    /\ run.pc = "slack"
    /\ \/ run' = [run EXCEPT !.pc = "complete", !.send_slack = "no"]
       \/ \E postError \in BOOLEAN :
              LET r == send_alerts(run.alerts, postError)
              IN  run' = IF r.raised
                         THEN [Exit1("send_alerts") EXCEPT !.send_slack = "yes",
                                                           !.post_failed = postError]
                         ELSE [run EXCEPT !.pc = "complete",
                                          !.send_slack = "yes",
                                          !.sent = r.sent,
                                          !.delivered = run.alerts,
                                          !.post_failed = postError]
    /\ UNCHANGED <<evalVars, saveVars, concVars, store>>

NextMain == Etl \/ RunAnalysis \/ Save \/ Ai \/ Slack

SpecMain == InitMain /\ [][NextMain]_vars

\* the alerts table as earlier runs can have left it: empty, or holding the
\* alerts of listing 1 for every week
PriorLedgers ==
    { EmptyLedger,
      [a \in AlertRows |-> IF a.id_listing = 1 THEN 1 ELSE 0] }

\* a run of the pipeline against the alerts table earlier runs left, with
\* or without a unique key (on the empty table a key has nothing to reject)
InitAgain ==
    /\ rows = <<>>
    /\ cfg = Config
    /\ result = NotRun
    /\ ledger \in PriorLedgers
    /\ uniqueKey \in (IF ledger = EmptyLedger THEN {FALSE} ELSE BOOLEAN)
    /\ last = None
    /\ calls = 0
    /\ lookupFailed = FALSE
    /\ workers = <<>>
    /\ store = EmptyStore
    /\ run = Pipeline("etl")

SpecAgain == InitAgain /\ [][NextMain]_vars

---------------------------------------------------------------------------
(* Properties of run_analysis and of the pipeline, checked under SpecMain *)

\* run_analysis has returned a frame
Returned == run.analysed

\* run_analysis has just returned: main is at the branch on len(alerts)
JustReturned ==
    /\ run.analysed
    /\ run.pc = "save" \/ (run.pc = "slack" /\ run.alerts = <<>>)

\* the alert of listing l as run_analysis collects it
Firing(l) == analyze_listing(store[l], cfg) # None

\* place of listing l in the order get_all_listings returned
PlaceOf(l) == CHOOSE i \in DOMAIN run.order : run.order[i] = l

\* C13: run_analysis returns exactly one alert for every listing of the store
\* whose analysis is not None, no other and none twice, with severity_score
\* non-increasing along the sequence.
C13_ExactlyFiringSortedDescending ==
    JustReturned =>
        /\ \A i, j \in DOMAIN run.alerts :
               run.alerts[i].id_listing = run.alerts[j].id_listing => i = j
        /\ { run.alerts[i] : i \in DOMAIN run.alerts } =
               { AlertOf(l, analyze_listing(store[l], cfg)) :
                     l \in {k \in KnownListings(store) : Firing(k)} }
        /\ \A i \in 1..(Len(run.alerts) - 1) :
               run.alerts[i].severity_score >= run.alerts[i + 1].severity_score

\* C13 witness: two listings fired with different scores, the lower one
\* first in the store's order, and the sort moved it behind
C13_Witness ==
    /\ JustReturned
    /\ Len(run.alerts) = 2
    /\ run.alerts[1].severity_score > run.alerts[2].severity_score
    /\ PlaceOf(run.alerts[1].id_listing) > PlaceOf(run.alerts[2].id_listing)

\* C14 as stated: alerts of equal severity_score appear in the order in which
\* the store listed their listings.
C14_TiesInIterationOrder ==
    Returned =>
        \A i, j \in DOMAIN run.alerts :
            (i < j /\ run.alerts[i].severity_score = run.alerts[j].severity_score)
                => PlaceOf(run.alerts[i].id_listing) < PlaceOf(run.alerts[j].id_listing)

\* C15: when a store read fails during run_analysis the exception leaves
\* run_analysis and main exits with status 1: no frame was returned, the
\* ledger was not written, nothing was summarised or delivered.
C15_ReadFailureAborts ==
    run.read_failed =>
        /\ run.pc = "exit1" /\ run.error = "run_analysis"
        /\ ~run.analysed /\ run.alerts = <<>>
        /\ ledger = EmptyLedger /\ last = None /\ calls = 0
        /\ run.ai_summary = "none"
        /\ run.sent = "none" /\ run.delivered = <<>>

\* C15 witness: a read failed over a store with a listing that fires
C15_Witness ==
    /\ run.read_failed
    /\ run.pc = "exit1"
    /\ \E l \in KnownListings(store) : Firing(l)

\* C16 as stated: a failed API call or webhook post leaves the ledger and the
\* frame alone and does not end the pipeline, the summary becoming the
\* placeholder and send_alerts returning False; and the summarizer and the
\* notifier are invoked only after a save_alerts call has returned.
C16_DownstreamAfterSave ==
    [][ /\ run.pc \in {"ai", "slack"} =>
             /\ ledger' = ledger
             /\ run'.alerts = run.alerts
             /\ run'.pc # "exit1"
             /\ run'.api_failed => run'.ai_summary = "placeholder"
             /\ run'.post_failed => run'.sent = "False"
        /\ (run'.ai_summary # run.ai_summary \/ run'.sent # run.sent) =>
             (last.kind = "Call" /\ last.outcome = "returned")
      ]_vars

\* C16 amended: as above, with the order of invocation holding for a
\* non-empty frame: the summarizer and the notifier are handed a non-empty
\* frame only after save_alerts has returned for it; on an empty frame
\* save_alerts is not called and the notifier alone is invoked.
C16_DownstreamFailuresContained ==
    [][ /\ run.pc \in {"ai", "slack"} =>
             /\ ledger' = ledger
             /\ run'.alerts = run.alerts
             /\ run'.pc # "exit1"
             /\ run'.api_failed => run'.ai_summary = "placeholder"
             /\ run'.post_failed => run'.sent = "False"
        /\ (run'.ai_summary # run.ai_summary \/ run'.sent # run.sent) =>
             IF Len(run.alerts) > 0
             THEN /\ last.kind = "Call" /\ last.outcome = "returned"
                  /\ last.batch = BatchOf(run.alerts)
             ELSE /\ last = None
                  /\ run'.ai_summary = run.ai_summary
      ]_vars

\* C16 witness: the API call and the webhook post both failed and the
\* pipeline completed with the saved batch in the ledger
C16_Witness ==
    /\ run.pc = "complete"
    /\ run.api_failed /\ run.ai_summary = "placeholder"
    /\ run.post_failed /\ run.sent = "False"
    /\ Len(run.alerts) > 0
    /\ \A a \in BatchOf(run.alerts) : ledger[a] = 1

\* C17: run_analysis raises only when a read of the store failed; over a
\* store with no listing, or with none that fires, it returns the empty
\* sequence (a sequence that is not empty has a listing that fires), and the
\* pipeline then never calls save_alerts nor writes the ledger.
C17_EmptyRunWritesNothing ==
    /\ run.error = "run_analysis" => run.read_failed
    /\ (Returned /\ run.alerts # <<>>) => Firing(run.alerts[1].id_listing)
    /\ (Returned /\ run.alerts = <<>>) =>
           /\ run.pc \in {"slack", "complete"}
           /\ ledger = EmptyLedger /\ last = None /\ calls = 0

\* C17 witness: the run over a store with no listing completed
C17_Witness ==
    /\ store = EmptyStore
    /\ run.pc = "complete"
    /\ run.alerts = <<>>
    /\ run.sent = "True"

---------------------------------------------------------------------------
(* Two executions of save_alerts against one store.  The method holds no   *)
(* lock and opens no transaction around its two statements: the SELECT of  *)
(* the existing alerts and the INSERT are separate round trips, so another *)
(* execution's statements can fall between them.                           *)

Workers == {"w1", "w2"}

\* locals of one execution of save_alerts
Worker(pc, batch, lookup, db_alerts, inserted) ==
    [ pc |-> pc, batch |-> batch, lookup |-> lookup,
      db_alerts |-> db_alerts, inserted |-> inserted ]

\* both executions were handed the same non-empty batch: two runs over the
\* same store for the same week
InitConc ==
    /\ rows = <<>>
    /\ cfg = Config
    /\ result = NotRun
    /\ ledger = EmptyLedger
    /\ uniqueKey \in BOOLEAN
    /\ last = None
    /\ calls = 0
    /\ lookupFailed = FALSE
    /\ store = <<>>
    /\ run = None
    /\ \E batch \in Batches \ {{}} :
         workers = [w \in Workers |-> Worker("lookup", batch, "none", {}, {})]

\* save_alerts up to the end of its first try block: the lookup and the
\* filtering; returns at once when every latest alert is already stored
ConcLookup(w) ==
    /\ workers[w].pc = "lookup"
    /\ \E lookup \in {"ok", "failed"} :
         LET db_alerts == RowsToInsert(ledger, workers[w].batch, lookup)
         IN  workers' = [workers EXCEPT ![w] =
                 Worker(IF db_alerts = {} THEN "returned" ELSE "insert",
                        workers[w].batch, lookup, db_alerts, {})]
    /\ UNCHANGED <<evalVars, saveVars, mainVars>>

\* save_alerts from "Prepare data" on: the insert of the rows kept
ConcInsert(w) ==
    /\ workers[w].pc = "insert"
    /\ \E storeError \in BOOLEAN :
         LET r == insert_dataframe(ledger, workers[w].db_alerts, uniqueKey, storeError)
         IN  /\ ledger' = r.ledger
             /\ workers' = [workers EXCEPT ![w] =
                   Worker(IF r.raised THEN "raised" ELSE "returned",
                          workers[w].batch, workers[w].lookup, workers[w].db_alerts,
                          IF r.insert = "ok" THEN workers[w].db_alerts ELSE {})]
    /\ UNCHANGED <<evalVars, uniqueKey, last, calls, lookupFailed, mainVars>>

NextConc == \E w \in Workers : ConcLookup(w) \/ ConcInsert(w)

SpecConc == InitConc /\ [][NextConc]_vars

\* C12 as stated: two concurrent executions of save_alerts for the same
\* alert_date, both lookups answered by the store, never both insert a row
\* for the same (listing_id, alert_date).
C12_NeverBothInsert ==
    (\A w \in Workers : workers[w].lookup = "ok") =>
        \A a \in AlertRows :
            ~(a \in workers["w1"].inserted /\ a \in workers["w2"].inserted)

---------------------------------------------------------------------------
(* Properties of the pipeline run against a written ledger, checked under  *)
(* SpecAgain                                                               *)

\* the (id_listing, alert_date) pair of one alert of the frame
RowOf(a) == [id_listing |-> a.id_listing, alert_date |-> a.alert_date]

\* C21: save_alerts leaves the frame it is given as it was, and the
\* summarizer and the notifier are each called with the whole frame that
\* run_analysis returned, in its order, whatever save_alerts skipped as
\* stored already or left out as older than the latest alert_date.
C21_FullBatchDelivered ==
    /\ [](run.use_ai = "yes" => run.summarised = run.alerts)
    /\ [](run.send_slack = "yes" => run.delivered = run.alerts)
    /\ [][run.analysed => run'.alerts = run.alerts]_vars

\* C21 witness: the notifier was handed, besides an alert that save_alerts
\* skipped as stored already, an alert of an older alert_date that no run
\* has stored; the run itself stored nothing
C21_Witness ==
    /\ run.pc = "complete"
    /\ run.sent = "True"
    /\ last.kind = "Call" /\ last.lookup = "ok" /\ last.inserted = {}
    /\ \E i \in DOMAIN run.delivered :
         /\ RowOf(run.delivered[i]) \in OfLatestDate(last.batch)
         /\ ledger[RowOf(run.delivered[i])] = 1
    /\ \E i \in DOMAIN run.delivered :
         /\ RowOf(run.delivered[i]) \notin OfLatestDate(last.batch)
         /\ ledger[RowOf(run.delivered[i])] = 0

=============================================================================
